---- MODULE Spec2Model ----
(***************************************************************************)
(* Recipe search single-page application (src/src/App.js).                 *)
(*                                                                         *)
(* App.js holds two App components, each followed by `export default App`: *)
(*   - lines 6-56:    the useEffect/getRecipes component ("js"),           *)
(*   - lines 105-477: the useQuery/fetchRecipes component ("tsx").         *)
(* Either one is what gets mounted; `mounted` records which, and each      *)
(* component's handlers act only on that component's own state.            *)
(***************************************************************************)
EXTENDS Integers, Sequences, FiniteSets, TLC

\* ------------------------------------------------------------- bounds
\* Most recipe hits one response body carries.
MaxHits == 2
\* Most HTTP GETs one run issues (caps the request counter).
MaxGets == 5

\* Texts the user can have in the search box; "" is the empty box and
\* "chicken" the default query of both useState calls.
Texts == {"", "chicken"}

\* ------------------------------------------------------------- values
\* One recipe record of a response: the i-th hit the API returned for q.
Hit(q, i) == [q |-> q, i |-> i]
\* data.hits of a body carrying n hits for query q.
Hits(q, n) == [i \in 1..n |-> Hit(q, i)]
\* A JavaScript value that is either undefined or an array of hits.
Undefined == [defined |-> FALSE, hits |-> <<>>]
Defined(h) == [defined |-> TRUE, hits |-> h]
\* selectedRecipe === null
NoRecipe == [q |-> "", i |-> 0]
\* error === null
NoError == "null"

\* What the network can hand back to one fetch(url): the promise rejects
\* (net "reject"), or a Response arrives with its ok flag and a body that is
\* not JSON ("unparseable"), JSON without a hits field ("nohits"), or JSON
\* with n hits ("hits"). A response whose status is not OK carries no hits.
Responses ==
  {[net |-> "reject", ok |-> FALSE, body |-> "none", n |-> 0]}
  \cup {[net |-> "response", ok |-> o, body |-> b, n |-> 0] :
          o \in BOOLEAN, b \in {"unparseable", "nohits"}}
  \cup {[net |-> "response", ok |-> TRUE, body |-> "hits", n |-> k] :
          k \in 0..MaxHits}

VARIABLES
  mounted,        \* "js" | "tsx": which App component is rendered
  \* --- App, lines 6-56
  recipes,        \* useState([])          line 12
  search,         \* useState('')          line 13
  query,          \* useState('chicken')   line 14
  calls,          \* getRecipes() calls awaiting fetch: {[id, q]}
  crashed,        \* a render threw: React unmounted the tree
  unhandled,      \* number of promise rejections nobody caught
  \* --- App, lines 105-477
  searchTerm,     \* useState('')          line 106
  query2,         \* useState('chicken')   line 107 (named query there)
  selectedRecipe, \* useState(null)        line 108
  cache,          \* the QueryClient's cache: query text -> query state
  \* --- observation
  gets,           \* HTTP GETs issued so far
  last            \* the step just taken

vars == <<mounted, recipes, search, query, calls, crashed, unhandled,
          searchTerm, query2, selectedRecipe, cache, gets, last>>
jsVars == <<recipes, search, query, calls, crashed, unhandled>>
tsxVars == <<searchTerm, query2, selectedRecipe, cache>>

\* The step record: which handler ran, on which text, whether it issued an
\* HTTP GET, for a settled fetch the response, and in id the getRecipes call
\* settled, the card clicked, or (handleSearchSubmit) the index of the
\* recipe that was selected when the form was submitted, 0 for none.
Step(op, q, fetched, resp, id) ==
  [op |-> op, q |-> q, fetched |-> fetched, resp |-> resp, id |-> id]
NoResp == [net |-> "none", ok |-> FALSE, body |-> "none", n |-> 0]

\* ===================================================================
\* App, lines 6-56: useState + useEffect + getRecipes
\* ===================================================================

\* What is on screen (lines 34-55): the form and the recipes div, always;
\* there is no loading and no error branch. A crashed tree shows nothing.
JsView == IF crashed THEN "blank" ELSE "grid"

\* Mutant: the effect without its dependency on query.
EffectRunsAlways(old, new) == TRUE

\* useEffect(() => { getRecipes() }, [query]) (lines 16-19): the effect runs
\* after a render in which query differs from the previous render's query,
\* and then starts one getRecipes() call, whose fetch (line 22) captures q.
EffectRuns(old, new) == old # new

\* updateSearch (lines 31-33)
updateSearch(text) ==
  /\ mounted = "js" /\ ~crashed
  /\ search' = text
  /\ last' = Step("type", text, FALSE, NoResp, 0)
  /\ UNCHANGED <<mounted, recipes, query, calls, crashed, unhandled, gets>>
  /\ UNCHANGED tsxVars

\* getSearch (lines 26-30), with the re-render and the effect it causes.
getSearch ==
  /\ mounted = "js" /\ ~crashed
  /\ EffectRuns(query, search) => gets < MaxGets
  /\ query' = search
  /\ search' = ""
  /\ IF EffectRuns(query, search)
       THEN /\ calls' = calls \cup {[id |-> gets + 1, q |-> search]}
            /\ gets' = gets + 1
       ELSE UNCHANGED <<calls, gets>>
  /\ last' = Step("commit", search, EffectRuns(query, search), NoResp, 0)
  /\ UNCHANGED <<mounted, recipes, crashed, unhandled>>
  /\ UNCHANGED tsxVars

\* What one getRecipes() call (lines 21-25) does once its fetch settles:
\*   "rejects"   fetch rejected (line 22) or response.json() rejected
\*               (line 23); nothing catches it and setRecipes is not reached;
\*   "undefined" the body parsed but has no hits: setRecipes(undefined);
\*   "hits"      setRecipes(data.hits).
\* response.ok is never read.
getRecipesOutcome(r) ==
  IF r.net = "reject" THEN "rejects"
  ELSE IF r.body = "unparseable" THEN "rejects"
  ELSE IF r.body = "nohits" THEN "undefined"
  ELSE "hits"

\* The value line 24 passes to setRecipes.
getRecipesData(c, r) ==
  IF getRecipesOutcome(r) = "hits" THEN Defined(Hits(c.q, r.n)) ELSE Undefined

\* Mutant: a getRecipes that calls itself again when its fetch failed.
getRecipesRetrying(c, r) ==
  /\ mounted = "js"
  /\ c \in calls
  /\ getRecipesOutcome(r) = "rejects" => gets < MaxGets
  /\ calls' = IF getRecipesOutcome(r) = "rejects"
                THEN (calls \ {c}) \cup {[id |-> gets + 1, q |-> c.q]}
                ELSE calls \ {c}
  /\ gets' = IF getRecipesOutcome(r) = "rejects" THEN gets + 1 ELSE gets
  /\ unhandled' = unhandled
  /\ recipes' = IF getRecipesOutcome(r) = "rejects" \/ crashed
                  THEN recipes ELSE getRecipesData(c, r)
  /\ crashed' = (crashed \/ getRecipesOutcome(r) = "undefined")
  /\ last' = Step("response", c.q, getRecipesOutcome(r) = "rejects", r, c.id)
  /\ UNCHANGED <<mounted, search, query>>
  /\ UNCHANGED tsxVars

\* getRecipes (lines 21-25) resuming after its awaits, for call c and
\* response r. Rendering recipes.map (line 44) on undefined throws, and with
\* no error boundary React unmounts the tree. A setRecipes on the unmounted
\* component changes nothing.
getRecipes(c, r) ==
  /\ mounted = "js"
  /\ c \in calls
  /\ calls' = calls \ {c}
  /\ unhandled' = IF getRecipesOutcome(r) = "rejects"
                    THEN unhandled + 1 ELSE unhandled
  /\ recipes' = IF getRecipesOutcome(r) = "rejects" \/ crashed
                  THEN recipes ELSE getRecipesData(c, r)
  /\ crashed' = (crashed \/ getRecipesOutcome(r) = "undefined")
  /\ last' = Step("response", c.q, FALSE, r, c.id)
  /\ UNCHANGED <<mounted, search, query, gets>>
  /\ UNCHANGED tsxVars

\* ===================================================================
\* App, lines 105-477: useState + useQuery + fetchRecipes
\* ===================================================================

\* Retries the query client makes of a failed queryFn before it reports the
\* error: useQuery is called with queryKey and queryFn only (lines 121-124),
\* so the library's default of 3 applies.
Retry == 3

\* One query of the cache. status "absent": no query for that key yet.
\* fetching: the query is being fetched (an attempt is in flight or the
\* next one is awaited); failures: attempts of the fetch in progress that
\* failed, 0 when none is in progress;
\* retryError: the error of the failed attempt while the query client waits
\* out its retry delay, NoError when no attempt is awaited.
Absent == [status |-> "absent", data |-> Undefined, error |-> NoError,
           fetching |-> FALSE, failures |-> 0, retryError |-> NoError]

\* useQuery({queryKey: ['recipes', query], queryFn}) (lines 121-124) reads
\* the query of the current key.
Current == cache[query2]
data == Current.data
isLoading == Current.status = "pending" /\ Current.fetching
error == Current.error

\* The branch App returns: lines 142-151, 153-165, 167-476.
View == IF isLoading THEN "loading"
        ELSE IF error # NoError THEN "error"
        ELSE "main"
\* recipes && recipes.length > 0 (line 218)
GridShown == View = "main" /\ data.defined /\ Len(data.hits) > 0
\* the "No recipes found" block (lines 296-302)
NoRecipesShown == View = "main" /\ ~GridShown
\* {selectedRecipe && ...} (line 317)
ModalShown == View = "main" /\ selectedRecipe # NoRecipe
\* The search form (lines 183-198) is part of the main branch only.
FormShown == View = "main"

\* The observer of useQuery turning to key k: a key without a query gets one
\* and it is fetched; a query that is being fetched is joined; any other is
\* stale (staleTime is not set at line 121) and is fetched again, keeping
\* its data and its error if it has data.
StartsFetch(c, k) == ~c[k].fetching
Observe(c, k) ==
  IF ~StartsFetch(c, k) THEN c
  ELSE [c EXCEPT ![k] =
          IF c[k].data.defined
            THEN [c[k] EXCEPT !.fetching = TRUE, !.failures = 0]
            ELSE [status |-> "pending", data |-> Undefined, error |-> NoError,
                  fetching |-> TRUE, failures |-> 0, retryError |-> NoError]]

\* handleSearchChange (lines 126-128)
handleSearchChange(text) ==
  /\ mounted = "tsx" /\ FormShown
  /\ searchTerm' = text
  /\ last' = Step("type", text, FALSE, NoResp, 0)
  /\ UNCHANGED <<mounted, query2, selectedRecipe, cache, gets>>
  /\ UNCHANGED jsVars

\* setQuery(searchTerm) re-renders with a new queryKey only when the text
\* differs from query (line 132, 122).
KeyChanges(old, new) == old # new

\* Mutant: handleSearchSubmit without line 133.
handleSearchSubmitKeepsModal ==
  /\ mounted = "tsx" /\ FormShown
  /\ LET fetches == KeyChanges(query2, searchTerm) /\ StartsFetch(cache, searchTerm)
     IN /\ fetches => gets < MaxGets
        /\ query2' = searchTerm
        /\ cache' = IF KeyChanges(query2, searchTerm)
                      THEN Observe(cache, searchTerm) ELSE cache
        /\ gets' = IF fetches THEN gets + 1 ELSE gets
        /\ last' = Step("commit", searchTerm, fetches, NoResp, selectedRecipe.i)
  /\ UNCHANGED <<mounted, searchTerm, selectedRecipe>>
  /\ UNCHANGED jsVars

\* handleSearchSubmit (lines 130-134), with the re-render it causes.
handleSearchSubmit ==
  /\ mounted = "tsx" /\ FormShown
  /\ LET fetches == KeyChanges(query2, searchTerm) /\ StartsFetch(cache, searchTerm)
     IN /\ fetches => gets < MaxGets
        /\ query2' = searchTerm
        /\ selectedRecipe' = NoRecipe
        /\ cache' = IF KeyChanges(query2, searchTerm)
                      THEN Observe(cache, searchTerm) ELSE cache
        /\ gets' = IF fetches THEN gets + 1 ELSE gets
        /\ last' = Step("commit", searchTerm, fetches, NoResp, selectedRecipe.i)
  /\ UNCHANGED <<mounted, searchTerm>>
  /\ UNCHANGED jsVars

\* fetchRecipes (lines 110-119) throws or rejects on response r: the fetch
\* rejected (line 112), the status is not OK (lines 114-116), or
\* response.json() rejected (line 117). On a body without hits it resolves
\* with undefined (line 118).
fetchRecipesThrows(r) ==
  r.net = "reject" \/ ~r.ok \/ r.body = "unparseable"

\* The error the query reports for response r, NoError when fetchRecipes
\* returned data.hits: what fetchRecipes threw, or the query client's own
\* error for a query function that resolved with undefined.
fetchRecipesError(r) ==
  IF r.net = "reject" THEN "Failed to fetch"
  ELSE IF ~r.ok THEN "Network response was not ok"
  ELSE IF r.body = "unparseable" THEN "Unexpected token"
  ELSE IF r.body = "nohits" THEN "Query data cannot be undefined"
  ELSE NoError

\* The query client attempts a fetch again only for the key useQuery
\* observes: leaving a key cancels the retries of its fetch, coming back to
\* it while it is still being fetched resumes them.
RetryAllowed(k) == k = query2

\* The query of key k reporting the error err; the data it had stays.
Failed(e, err) ==
  [e EXCEPT !.status = "error", !.error = err, !.fetching = FALSE,
            !.failures = 0, !.retryError = NoError]

\* The query of key k after an attempt of its queryFn settled on r: the
\* data on success; when fetchRecipes threw, fewer than Retry attempts have
\* failed and retries are allowed, the wait for the next attempt; else the
\* error. A queryFn that resolved with undefined is not attempted again.
Settle(e, k, r) ==
  IF fetchRecipesError(r) = NoError
    THEN [status |-> "success", data |-> Defined(Hits(k, r.n)),
          error |-> NoError, fetching |-> FALSE, failures |-> 0,
          retryError |-> NoError]
  ELSE IF fetchRecipesThrows(r) /\ e.failures < Retry /\ RetryAllowed(k)
    THEN [e EXCEPT !.failures = e.failures + 1,
                   !.retryError = fetchRecipesError(r)]
    ELSE Failed(e, fetchRecipesError(r))

\* An attempt of fetchRecipes for key k settling on response r, and the
\* query client recording the result under k. No request is issued here.
fetchRecipes(k, r) ==
  /\ mounted = "tsx"
  /\ cache[k].fetching /\ cache[k].retryError = NoError
  /\ cache' = [cache EXCEPT ![k] = Settle(cache[k], k, r)]
  /\ last' = Step("response", k, FALSE, r, 0)
  /\ UNCHANGED <<mounted, searchTerm, query2, selectedRecipe, gets>>
  /\ UNCHANGED jsVars

\* The retry delay of key k's failed attempt has passed: the query client
\* calls fetchRecipes again (the next HTTP GET), or, the retries having
\* been cancelled meanwhile, reports the error of the failed attempt.
retryTimer(k) ==
  /\ mounted = "tsx"
  /\ cache[k].retryError # NoError
  /\ RetryAllowed(k) => gets < MaxGets
  /\ cache' = [cache EXCEPT ![k] =
                 IF RetryAllowed(k) THEN [@ EXCEPT !.retryError = NoError]
                 ELSE Failed(@, @.retryError)]
  /\ gets' = IF RetryAllowed(k) THEN gets + 1 ELSE gets
  /\ last' = Step("retry", k, RetryAllowed(k), NoResp, 0)
  /\ UNCHANGED <<mounted, searchTerm, query2, selectedRecipe>>
  /\ UNCHANGED jsVars

\* The query client removes the query of a key that useQuery does not
\* observe and that is not being fetched (the default gcTime has passed).
garbageCollect(k) ==
  /\ mounted = "tsx"
  /\ k # query2
  /\ cache[k].status # "absent" /\ ~cache[k].fetching
  /\ cache' = [cache EXCEPT ![k] = Absent]
  /\ last' = Step("gc", k, FALSE, NoResp, 0)
  /\ UNCHANGED <<mounted, searchTerm, query2, selectedRecipe, gets>>
  /\ UNCHANGED jsVars

\* Mutant: every card opens the first recipe.
selectRecipeFirst(i) ==
  /\ mounted = "tsx" /\ GridShown
  /\ i \in 1..Len(data.hits)
  /\ selectedRecipe' = data.hits[1]
  /\ last' = Step("select", query2, FALSE, NoResp, i)
  /\ UNCHANGED <<mounted, searchTerm, query2, cache, gets>>
  /\ UNCHANGED jsVars

\* onClick of card i (line 224) or of its View Details button (line 275)
selectRecipe(i) ==
  /\ mounted = "tsx" /\ GridShown
  /\ i \in 1..Len(data.hits)
  /\ selectedRecipe' = data.hits[i]
  /\ last' = Step("select", query2, FALSE, NoResp, i)
  /\ UNCHANGED <<mounted, searchTerm, query2, cache, gets>>
  /\ UNCHANGED jsVars

\* onClick of the modal's close buttons (lines 329, 465)
closeModal ==
  /\ mounted = "tsx" /\ ModalShown
  /\ selectedRecipe' = NoRecipe
  /\ last' = Step("close", query2, FALSE, NoResp, 0)
  /\ UNCHANGED <<mounted, searchTerm, query2, cache, gets>>
  /\ UNCHANGED jsVars

\* The window regains focus or the network reconnects: the query client
\* refetches the query useQuery observes (lines 121-124 set neither
\* refetchOnWindowFocus nor refetchOnReconnect nor staleTime, so the
\* defaults apply) unless it is being fetched already.
onWindowFocus ==
  /\ mounted = "tsx"
  /\ StartsFetch(cache, query2)
  /\ gets < MaxGets
  /\ cache' = Observe(cache, query2)
  /\ gets' = gets + 1
  /\ last' = Step("focus", query2, TRUE, NoResp, 0)
  /\ UNCHANGED <<mounted, searchTerm, query2, selectedRecipe>>
  /\ UNCHANGED jsVars

\* ===================================================================
\* The program
\* ===================================================================

\* The state after the first render and its effects: the default query
\* "chicken" is being fetched (line 14 and 16-19; line 107 and 121-124).
InitJs ==
  /\ recipes = Defined(<<>>)
  /\ search = ""
  /\ query = "chicken"
  /\ calls = IF mounted = "js" THEN {[id |-> 1, q |-> "chicken"]} ELSE {}
  /\ crashed = FALSE
  /\ unhandled = 0

InitTsx ==
  /\ searchTerm = ""
  /\ query2 = "chicken"
  /\ selectedRecipe = NoRecipe
  /\ cache = IF mounted = "tsx"
               THEN Observe([k \in Texts |-> Absent], "chicken")
               ELSE [k \in Texts |-> Absent]

Init ==
  /\ mounted \in {"js", "tsx"}
  /\ InitJs
  /\ InitTsx
  /\ gets = 1
  /\ last = Step("mount", "chicken", TRUE, NoResp, 1)

Next ==
  \/ \E text \in Texts : updateSearch(text)
  \/ getSearch
  \/ \E c \in calls, r \in Responses : getRecipes(c, r)
  \/ \E text \in Texts : handleSearchChange(text)
  \/ handleSearchSubmit
  \/ \E k \in Texts, r \in Responses : fetchRecipes(k, r)
  \/ \E i \in 1..MaxHits : selectRecipe(i)
  \/ closeModal
  \/ onWindowFocus
  \/ \E k \in Texts : retryTimer(k)
  \/ \E k \in Texts : garbageCollect(k)

Spec == Init /\ [][Next]_vars

\* ===================================================================
\* What the user sees, for either component
\* ===================================================================
CommittedQuery == IF mounted = "js" THEN query ELSE query2
DraftText == IF mounted = "js" THEN search ELSE searchTerm
\* The hits laid out as cards: recipes.map at line 44 (always rendered) or
\* at line 220 (rendered under the condition of line 218).
ResultsShown ==
  IF mounted = "js" THEN (IF crashed THEN <<>> ELSE recipes.hits)
  ELSE IF GridShown THEN data.hits ELSE <<>>
\* The spinner of lines 142-151; lines 34-55 have none.
LoadingShown == mounted = "tsx" /\ View = "loading"
\* The error card of lines 153-165; lines 34-55 have none.
FailureShown == mounted = "tsx" /\ View = "error"
\* The message the failure carries (line 160); lines 12-14 hold no error.
FailureMessage(k) == IF mounted = "tsx" THEN cache[k].error ELSE NoError
\* The "No recipes found" block of lines 296-302; lines 43-53 have none.
NoResultsShown == mounted = "tsx" /\ NoRecipesShown
\* A results container with no card in it.
EmptyGridShown ==
  IF mounted = "js" THEN ~crashed /\ recipes.hits = <<>>
  ELSE View = "main" /\ data.defined /\ data.hits = <<>> /\ ~NoRecipesShown
\* Fetches that have not settled yet.
Outstanding ==
  IF mounted = "js" THEN {c.q : c \in calls}
  ELSE {k \in Texts : cache[k].fetching}
\* The step just taken settled the fetch of the latest commit.
SettledCurrent ==
  /\ last.op = "response"
  /\ last.q = CommittedQuery
  /\ mounted = "js" => last.id = gets
\* The failures of the fetch cycle: the call rejects, the status is not OK,
\* the body does not parse.
FetchFailed(r) == r.net = "reject" \/ ~r.ok \/ r.body = "unparseable"

\* ===================================================================
\* Claims
\* ===================================================================

\* C1 (stale-response suppression): once every outstanding fetch has
\* answered with a result list, the cards on screen are those of the
\* response to the latest committedQuery, never those of an earlier query
\* whose response arrived later.
C1_StaleSuppressed ==
  (Outstanding = {} /\ unhandled = 0 /\ ~crashed /\ ~FailureShown)
    => \A i \in DOMAIN ResultsShown : ResultsShown[i].q = CommittedQuery

\* The same for the useQuery component alone, in every state: the cards on
\* screen are hits fetched for the current query key.
TsxResultsBelongToQuery ==
  mounted = "tsx" => \A i \in DOMAIN ResultsShown : ResultsShown[i].q = query2

\* C2 (HTTP error status): right after the fetch of the current
\* committedQuery answered with a non-OK status, the failure is displayed
\* and no result card is on screen.
C2_HttpErrorShowsFailure ==
  (SettledCurrent /\ last.resp.net = "response" /\ ~last.resp.ok)
    => (FailureShown /\ ResultsShown = <<>>)

\* The useQuery component alone: once the last attempt of the current
\* query's fetch answered with a non-OK status (no attempt follows), the
\* failure is displayed and no result card is on screen.
TsxHttpErrorShowsFailure ==
  (mounted = "tsx" /\ SettledCurrent /\ last.resp.net = "response"
     /\ ~last.resp.ok /\ ~Current.fetching)
    => (FailureShown /\ ResultsShown = <<>>)

\* C3 (errors become Failure): no rejection of the fetch cycle is left
\* uncaught, and right after a fetch failed (rejected call, non-OK status,
\* unparseable body) the failure of its query is recorded with a message.
C3_ErrorsBecomeFailure ==
  /\ unhandled = 0
  /\ (last.op = "response" /\ FetchFailed(last.resp))
       => FailureMessage(last.q) # NoError

\* The useQuery component alone: nothing is left uncaught, and once the
\* last attempt of a fetch failed (no attempt follows) the failure of its
\* query is recorded with a message.
TsxErrorsBecomeFailure ==
  mounted = "tsx" =>
    /\ unhandled = 0
    /\ (last.op = "response" /\ FetchFailed(last.resp) /\ ~cache[last.q].fetching)
         => (cache[last.q].status = "error" /\ cache[last.q].error # NoError)

\* C4 (no retries): the count of HTTP GETs grows only in a step that is a
\* form submission, and by one; a failed fetch issues no further request.
C4_NoRetries ==
  [][gets' # gets => (last'.op = "commit" /\ gets' = gets + 1)]_vars

\* The useEffect component alone satisfies it: getRecipes runs once for each
\* change of query (lines 16-19) and never again.
JsNoRetries ==
  [][(mounted = "js" /\ gets' # gets)
       => (last'.op = "commit" /\ gets' = gets + 1)]_vars

\* C5 (commit reloads, failure is recoverable): right after a commit the
\* Loading state is displayed and no earlier result is on screen, and while
\* a failure is displayed the form can be submitted.
C5_CommitReloads ==
  /\ last.op = "commit" => (LoadingShown /\ ResultsShown = <<>>)
  /\ FailureShown => ENABLED handleSearchSubmit

\* C6 as stated (no deduplication): every commit, also one of the text that
\* is already the committedQuery, issues an HTTP fetch.
C6_EveryCommitFetches == last.op = "commit" => last.fetched

\* A commit of text the query client is already fetching joins that fetch.
Joins == mounted = "tsx" /\ DraftText \in Outstanding

\* C6 amended: a commit issues one HTTP fetch, for the committed text,
\* exactly when that text differs from the committedQuery (the empty text
\* included) and is not already being fetched by the query client; a commit
\* of the unchanged committedQuery issues none.
C6_CommitFetchesIffChanged ==
  [][last'.op = "commit" =>
       /\ (gets' # gets) <=> (DraftText # CommittedQuery /\ ~Joins)
       /\ gets' \in {gets, gets + 1}
       /\ last'.fetched <=> (gets' # gets)
       /\ (gets' # gets) => DraftText \in Outstanding']_vars

\* C6 witness: an empty text was committed and its fetch is outstanding.
C6_EmptyCommitFetched ==
  /\ last.op = "commit" /\ last.q = "" /\ last.fetched
  /\ CommittedQuery = "" /\ "" \in Outstanding

\* C7 (input while loading): while the fetch of the current query is
\* loading, the Loading state is displayed and typing and submitting are
\* both possible.
C7_InputEnabledWhileLoading ==
  (mounted = "tsx" /\ isLoading) =>
    /\ LoadingShown
    /\ ENABLED handleSearchSubmit
    /\ ENABLED (\E text \in Texts : handleSearchChange(text))

\* C8 (empty results): right after the fetch of the current committedQuery
\* succeeded with an empty list, the "no recipes found" block is displayed
\* and no empty grid is.
C8_EmptyShowsNoResults ==
  (SettledCurrent /\ last.resp.ok /\ last.resp.body = "hits" /\ last.resp.n = 0)
    => (NoResultsShown /\ ~EmptyGridShown)

\* The same for the useQuery component alone, in every state.
TsxEmptyShowsNoResults ==
  mounted = "tsx" =>
    /\ ~EmptyGridShown
    /\ (View = "main" /\ data.hits = <<>>) => NoRecipesShown
    /\ GridShown => Len(data.hits) >= 1

\* C9 (selection only): selecting card i sets the selection to the i-th
\* record of the displayed list, closing sets it to none, and neither step
\* changes the draft, the committed query, the query cache (so neither the
\* fetch status nor the results) or the count of HTTP GETs.
C9_SelectionOnly ==
  [][last'.op \in {"select", "close"} =>
       /\ UNCHANGED <<searchTerm, query2, cache, gets>>
       /\ (last'.op = "select") =>
            /\ GridShown /\ last'.id \in 1..Len(ResultsShown)
            /\ selectedRecipe' = ResultsShown[last'.id]
       /\ (last'.op = "close") => selectedRecipe' = NoRecipe]_vars

\* C9 witness: a card of a two-card grid was selected and the detail view
\* closed again; the grid is displayed, nothing is selected.
C9_SelectedThenClosed ==
  /\ last.op = "close" /\ selectedRecipe = NoRecipe
  /\ GridShown /\ Len(ResultsShown) >= 2

\* C10 (commit): a commit sets committedQuery to the draft text of the
\* state it ran in and leaves no recipe selected.
C10_CommitCopiesDraft ==
  [][last'.op = "commit" =>
       /\ CommittedQuery' = DraftText
       /\ selectedRecipe' = NoRecipe]_vars

\* C10 witness: the form was submitted while a recipe was selected; the
\* committed query is the submitted text and nothing is selected.
C10_CommittedWithModalOpen ==
  /\ mounted = "tsx" /\ last.op = "commit" /\ last.id > 0
  /\ query2 = last.q /\ selectedRecipe = NoRecipe

\* The fetch the mount issued for the default query is still outstanding
\* and the query has not been changed since.
InitialFetchOutstanding ==
  /\ CommittedQuery = "chicken"
  /\ IF mounted = "js" THEN [id |-> 1, q |-> "chicken"] \in calls
     ELSE gets = 1 /\ cache["chicken"].fetching

\* C11 (mount and change load): the mount issues a fetch for "chicken" with
\* no user action, the Loading state holds until that fetch resolves, and
\* right after a commit that changed committedQuery (and so issued its
\* fetch) the Loading state holds.
C11_MountAndChangeLoad ==
  /\ last.op = "mount" => (gets = 1 /\ Outstanding = {"chicken"})
  /\ InitialFetchOutstanding => LoadingShown
  /\ (last.op = "commit" /\ last.fetched) => LoadingShown

\* The part of C11 the useQuery component satisfies: the mount fetches
\* "chicken" and shows Loading until that fetch resolves, and a commit of a
\* text the cache has no results for shows Loading.
TsxMountLoads ==
  mounted = "tsx" =>
    /\ last.op = "mount" => (gets = 1 /\ Outstanding = {"chicken"})
    /\ InitialFetchOutstanding => LoadingShown
    /\ (last.op = "commit" /\ last.fetched /\ ~data.defined) => LoadingShown

\* The selected record is one of the cards on screen.
SelectedIsShown == \E i \in DOMAIN ResultsShown : ResultsShown[i] = selectedRecipe

\* C12 (detail view over its results): while the detail view is
\* open, the current query is in Success and the selected record is an
\* element of the displayed results list.
C12_SelectedInDisplayedList ==
  (mounted = "tsx" /\ ModalShown) =>
    (Current.status = "success" /\ SelectedIsShown)

\* What does hold of the selection: while a recipe is selected, it is a
\* record fetched for the current committedQuery and that query holds
\* fetched results; while the detail view is open the current query is in
\* Success. (A refetch of the current query may have replaced the displayed
\* list since the selection.)
C12_SelectedOfCurrentQuery ==
  (mounted = "tsx" /\ selectedRecipe # NoRecipe) =>
    /\ selectedRecipe.q = query2
    /\ selectedRecipe.i >= 1
    /\ data.defined
    /\ ModalShown => Current.status = "success"

\* A state in which the list was replaced under the open detail view and
\* still holds the selected record.
C12_ModalOverRefetchedList ==
  /\ mounted = "tsx" /\ ModalShown /\ SelectedIsShown
  /\ last.op = "response" /\ last.q = query2 /\ last.resp.body = "hits"

====
